---- MODULE Spec2Model ----
(***************************************************************************)
(* Job queue, worker scheduler, webhook delivery and admin routes of the   *)
(* OCR service.  The Job table is the only shared state; every awaited     *)
(* store round trip or external call of a handler is one step.             *)
(***************************************************************************)
EXTENDS Integers, FiniteSets, Sequences, TLC

\* ---- bounds of the model ----
MaxJobs == 2          \* uploads accepted in one behaviour
MaxAdminOps == 1      \* admin requests (PATCH / DELETE) in one behaviour
MaxLiveJobs == 4      \* uploads accepted in the single-scheduler specifications
MaxAdminJobs == 3     \* uploads accepted in the scheduler-and-admin specification
MaxClock == 5         \* last clock tick of the stuck-job reports
MaxUploads == 2       \* uploads accepted in the upload specifications
MaxPages == 6         \* most pages of an image PDF
MaxTicks == 2         \* last millisecond Date.now() reaches during OCR calls

\* ---- program constants ----
MAX_CONCURRENT_JOBS == 3

Null == "null"

Workers == {"w1", "w2"}
JobIds == 1..(IF MaxJobs > MaxLiveJobs THEN MaxJobs ELSE MaxLiveJobs)

Statuses == {"PENDING", "PROCESSING", "COMPLETED", "FAILED"}

\* validStatuses of the PATCH handler
validStatuses == Statuses

\* messages the worker's failure handler can store
ValidationFailedMsg == "File validation failed: <reason>"
TimeoutMsg == "Processing timeout exceeded"
OcrFailedMsg == "OCR processing failed: <cause>"
RecordNotFoundMsg == "Record to update not found"

ResultJson == "resultJson"
Now == "now"

VARIABLES
    jobs,        \* the Job table: id -> row, NoRow where it has no such row
    nextId,      \* id the next created row gets
    pc,          \* per scheduler process: where its loop stands
    cur,         \* per scheduler process: id of the row its claim returned
    snapWebhook, \* per scheduler process: callbackWebhook of the row as claimed
    err,         \* per scheduler process: message of the caught error
    activeJobs,  \* per scheduler process: size of the activeJobs set
    posts,       \* per scheduler process: webhook POSTs issued in this run
    hookLog,     \* per scheduler process: what sendCallback logged last
    hookOverdue, \* per scheduler process: its POST is unanswered past budget
    superseded,  \* history: another process claimed this process's row since
    adminOps,    \* admin requests served so far
    delReq,      \* DELETE between its findUnique and its delete: id, or 0
    delForce,    \* force=true of the DELETE that delReq stands for
    sig,         \* per scheduler process: its SIGINT / SIGTERM handler
    sigJob,      \* history: row the process held when the signal arrived, or 0
    resp,        \* POST /api/upload: last answer (code, job id) and its file
    view,        \* admin reports: the row and clock read, and each answer
    statusAns,   \* GET /api/status/{id}: the last answer
    probe,       \* validateFile: the buffer and claimed type given, the result
    pdf,         \* processPDF on an image PDF: its pages, batches and results
    tmp,         \* the host's temp directory and the OCR invocations using it
    align        \* detectAlignment: the line and page width given, the label

workerVars == <<pc, cur, snapWebhook, err, activeJobs, posts, hookLog,
                hookOverdue, superseded>>

\* state of the signal handlers, of the upload answer and of the reports
\* state of the status route and of the OCR engine's parts
engineVars == <<statusAns, probe, pdf, tmp, align>>

sideVars == <<sig, sigJob, resp, view, engineVars>>

vars == <<jobs, nextId, pc, cur, snapWebhook, err, activeJobs,
          posts, hookLog, hookOverdue, superseded, adminOps, delReq,
          delForce, sig, sigJob, resp, view, statusAns, probe, pdf, tmp,
          align>>

\* stands for "the table has no row of this id"
NoRow ==
    [status |-> "ABSENT", ocrResult |-> Null, errorMessage |-> Null,
     processedAt |-> Null, createdAt |-> 0, callbackWebhook |-> Null,
     mimeType |-> Null]

Exists(j) == jobs[j].status # "ABSENT"

\* ---- the store ----

\* prisma.job.create: the columns the handlers read or write; createdAt is the
\* store clock at the create, later for every later row
NewJob(webhook, mimeType, createdAt) ==
    [status |-> "PENDING", ocrResult |-> Null, errorMessage |-> Null,
     processedAt |-> Null, createdAt |-> createdAt,
     callbackWebhook |-> webhook, mimeType |-> mimeType]

\* rows findFirst({status: PENDING}, orderBy createdAt asc) may return
OldestPending ==
    {j \in JobIds : /\ Exists(j)
                    /\ jobs[j].status = "PENDING"
                    /\ \A k \in JobIds :
                          (Exists(k) /\ jobs[k].status = "PENDING")
                              => jobs[j].createdAt <= jobs[k].createdAt}

\* a nullable DateTime that is null, where times are numbers
NoTime == -1

\* no upload answered yet
NoAnswer == [code |-> 0, id |-> 0, file |-> Null]

\* no report asked yet
NoView ==
    [status |-> "ABSENT", createdAt |-> 0, updatedAt |-> 0,
     processedAt |-> NoTime, now |-> 0,
     stats |-> "unasked", list |-> "unasked", detail |-> "unasked"]

\* no status request answered yet
NoStatusAnswer ==
    [code |-> 0, wellFormed |-> FALSE, row |-> 0, status |-> Null,
     fields |-> {}]

\* validateFile not called
NoProbe == [done |-> FALSE]

\* no image PDF under way
NoPdf == [phase |-> "idle"]

\* callPaddleOCR calls that can be under way at once on one host: two pages
\* of one PDF batch, or the calls of two worker processes
Invocations == {"a", "b"}

NoPath == -1

\* Date.now() is 0, an empty temp directory (path by timestamp -> whose
\* buffer the file holds), no callPaddleOCR call under way
NoTmp ==
    [clock |-> 0,
     files |-> [t \in 0..MaxTicks |-> "none"],
     calls |-> [c \in Invocations |->
                  [pc |-> "idle", path |-> NoPath, read |-> "none"]]]

\* detectAlignment not called
NoAlign == [done |-> FALSE]

\* idle scheduler processes, no request under way, an empty temp directory
IdleInit ==
    /\ pc = [w \in Workers |-> "loop"]
    /\ cur = [w \in Workers |-> 0]
    /\ snapWebhook = [w \in Workers |-> Null]
    /\ err = [w \in Workers |-> Null]
    /\ activeJobs = [w \in Workers |-> 0]
    /\ posts = [w \in Workers |-> 0]
    /\ hookLog = [w \in Workers |-> Null]
    /\ hookOverdue = [w \in Workers |-> FALSE]
    /\ superseded = [w \in Workers |-> FALSE]
    /\ adminOps = 0
    /\ delReq = 0
    /\ delForce = FALSE
    /\ sig = [w \in Workers |-> "running"]
    /\ sigJob = [w \in Workers |-> 0]
    /\ resp = NoAnswer
    /\ statusAns = NoStatusAnswer
    /\ tmp = NoTmp

\* an empty table
QueueInit ==
    /\ jobs = [j \in JobIds |-> NoRow]
    /\ nextId = 1
    /\ IdleInit
    /\ pdf = NoPdf

Init ==
    /\ QueueInit
    /\ view = NoView
    /\ probe = NoProbe
    /\ align = NoAlign

\* ---- POST /api/upload (accepted request) ----
\* the file is a PDF; the callback URL, when given, passed the schema
CreateJob(limit) ==
    /\ nextId <= limit
    /\ \E webhook \in {Null, "url"} :
          jobs' = [jobs EXCEPT
                      ![nextId] = NewJob(webhook, "application/pdf", nextId)]
    /\ nextId' = nextId + 1
    /\ UNCHANGED <<workerVars, adminOps, delReq, delForce, sideVars>>

Upload == CreateJob(MaxJobs)

\* ---- worker: runWorker and processNextJob ----

\* Microtask at which each contender of the reaping race settles, counted from
\* the call: job.then(() => 'done') on a settled job settles one microtask
\* later; Promise.resolve('pending') is settled already.
ThenSettlesAt == 1
SentinelSettlesAt == 0

\* Promise.race([job.then(() => 'done'), Promise.resolve('pending')]): the
\* contender settled first wins, the earlier array entry on a tie
ReapRace == IF ThenSettlesAt <= SentinelSettlesAt THEN "done" ELSE "pending"

\* size of activeJobs after the clean-up pass over n tracked (settled) promises
AfterReap(n) == IF ReapRace = "done" THEN 0 ELSE n

\* the capacity test written with <= for <: it admits one task too many
HasCapacityOffByOne(n) == n <= MAX_CONCURRENT_JOBS
\* activeJobs.size < MAX_CONCURRENT_JOBS
HasCapacity(n) == n < MAX_CONCURRENT_JOBS

\* a new loop iteration: the locals of the last processNextJob call are out of
\* scope; j is the row findFirst returns (0: none)
Forget(w, j) ==
    /\ cur' = [cur EXCEPT ![w] = j]
    /\ snapWebhook' = [snapWebhook EXCEPT ![w] = Null]
    /\ posts' = [posts EXCEPT ![w] = 0]
    /\ hookLog' = [hookLog EXCEPT ![w] = Null]
    /\ superseded' = [superseded EXCEPT ![w] = FALSE]

\* loop iteration at capacity: back off 500 ms
AtCapacity(w) ==
    /\ pc[w] = "loop"
    /\ ~HasCapacity(AfterReap(activeJobs[w]))
    /\ activeJobs' = [activeJobs EXCEPT ![w] = AfterReap(activeJobs[w])]
    /\ pc' = [pc EXCEPT ![w] = "sleep"]
    /\ Forget(w, 0)
    /\ UNCHANGED <<jobs, nextId, err, hookOverdue, adminOps, delReq, delForce, sideVars>>

\* loop iteration whose findFirst returns no row: processNextJob returns false
PollEmpty(w) ==
    /\ pc[w] = "loop"
    /\ HasCapacity(AfterReap(activeJobs[w]))
    /\ OldestPending = {}
    /\ activeJobs' = [activeJobs EXCEPT ![w] = AfterReap(activeJobs[w])]
    /\ pc' = [pc EXCEPT ![w] = "sleep"]
    /\ Forget(w, 0)
    /\ UNCHANGED <<jobs, nextId, err, hookOverdue, adminOps, delReq, delForce, sideVars>>

\* loop iteration whose findFirst returns the oldest PENDING row
FindPending(w) ==
    /\ pc[w] = "loop"
    /\ HasCapacity(AfterReap(activeJobs[w]))
    /\ \E j \in OldestPending : Forget(w, j)
    /\ activeJobs' = [activeJobs EXCEPT ![w] = AfterReap(activeJobs[w])]
    /\ pc' = [pc EXCEPT ![w] = "update"]
    /\ UNCHANGED <<jobs, nextId, err, hookOverdue, adminOps, delReq, delForce, sideVars>>

\* the process is between its claim and the return of that processNextJob call
Holds(w) == pc[w] \in {"validate", "ocr", "completing", "failing", "webhook"}

\* tx.job.update({where: {id}, data: {status: PROCESSING}}) and commit; the
\* statement names the row by id alone
ClaimUpdate(w) ==
    /\ pc[w] = "update"
    /\ Exists(cur[w])
    /\ jobs' = [jobs EXCEPT ![cur[w]].status = "PROCESSING"]
    /\ snapWebhook' = [snapWebhook EXCEPT ![w] = jobs[cur[w]].callbackWebhook]
    /\ pc' = [pc EXCEPT ![w] = "validate"]
    /\ superseded' = [v \in Workers |->
                         IF v = w THEN FALSE
                         ELSE superseded[v] \/ (Holds(v) /\ cur[v] = cur[w])]
    /\ UNCHANGED <<nextId, cur, err, activeJobs, posts, hookLog,
                   hookOverdue, adminOps, delReq, delForce, sideVars>>

\* the row is gone at the update: the transaction throws, the outer catch
\* returns false and the loop sleeps POLL_INTERVAL
ClaimUpdateMissing(w) ==
    /\ pc[w] = "update"
    /\ ~Exists(cur[w])
    /\ pc' = [pc EXCEPT ![w] = "sleep"]
    /\ UNCHANGED <<jobs, nextId, cur, snapWebhook, err,
                   activeJobs, posts, hookLog, superseded, hookOverdue,
                   adminOps, delReq, delForce, sideVars>>

\* the re-validation with its throw left out: a false isValid is noted and
\* the run goes on to the OCR call
RevalidateWithoutThrow(w) ==
    /\ pc[w] = "validate"
    /\ \E isValid \in BOOLEAN :
          /\ pc' = [pc EXCEPT ![w] = "ocr"]
          /\ err' = IF isValid THEN err
                    ELSE [err EXCEPT ![w] = ValidationFailedMsg]
    /\ UNCHANGED <<jobs, nextId, cur, snapWebhook, activeJobs,
                   posts, hookLog, superseded, hookOverdue, adminOps,
                   delReq, delForce, sideVars>>
\* fileValidator.validateFile on the stored bytes; a false isValid throws.
\* The bytes passed at upload, but the decoders behind validateFile (sharp,
\* pdf-lib) can still fail on them, which validateFile reports as invalid.
Revalidate(w) ==
    /\ pc[w] = "validate"
    /\ \E isValid \in BOOLEAN :
          IF isValid
          THEN /\ pc' = [pc EXCEPT ![w] = "ocr"]
               /\ err' = err
          ELSE /\ pc' = [pc EXCEPT ![w] = "failing"]
               /\ err' = [err EXCEPT ![w] = ValidationFailedMsg]
    /\ UNCHANGED <<jobs, nextId, cur, snapWebhook, activeJobs,
                   posts, hookLog, superseded, hookOverdue, adminOps,
                   delReq, delForce, sideVars>>

\* ocrPromise settles first in the race with timeoutPromise
OcrSettle(w) ==
    /\ pc[w] = "ocr"
    /\ \E ok \in BOOLEAN :
          IF ok
          THEN /\ pc' = [pc EXCEPT ![w] = "completing"]
               /\ err' = err
          ELSE /\ pc' = [pc EXCEPT ![w] = "failing"]
               /\ err' = [err EXCEPT ![w] = OcrFailedMsg]
    /\ UNCHANGED <<jobs, nextId, cur, snapWebhook, activeJobs,
                   posts, hookLog, superseded, hookOverdue, adminOps,
                   delReq, delForce, sideVars>>

\* the timer's rejection with no race around the OCR call: the run goes on
\* to the COMPLETED write
OcrTimeoutUnraced(w) ==
    /\ pc[w] = "ocr"
    /\ pc' = [pc EXCEPT ![w] = "completing"]
    /\ err' = [err EXCEPT ![w] = TimeoutMsg]
    /\ UNCHANGED <<jobs, nextId, cur, snapWebhook, activeJobs,
                   posts, hookLog, superseded, hookOverdue, adminOps,
                   delReq, delForce, sideVars>>
\* the PROCESSING_TIMEOUT timer rejects first
OcrTimeout(w) ==
    /\ pc[w] = "ocr"
    /\ pc' = [pc EXCEPT ![w] = "failing"]
    /\ err' = [err EXCEPT ![w] = TimeoutMsg]
    /\ UNCHANGED <<jobs, nextId, cur, snapWebhook, activeJobs,
                   posts, hookLog, superseded, hookOverdue, adminOps,
                   delReq, delForce, sideVars>>
\* processNextJob returned true: the loop tracks Promise.resolve() in activeJobs
Tracked(w) == [activeJobs EXCEPT ![w] = @ + 1]

\* the COMPLETED update followed by a POST whether or not the claimed row
\* carries callbackWebhook
FinalizeCompletedPostsUnasked(w) ==
    /\ pc[w] = "completing"
    /\ IF Exists(cur[w])
       THEN /\ jobs' = [jobs EXCEPT ![cur[w]].status = "COMPLETED",
                                    ![cur[w]].ocrResult = ResultJson,
                                    ![cur[w]].processedAt = Now]
            /\ err' = err
            /\ IF TRUE
               THEN /\ pc' = [pc EXCEPT ![w] = "webhook"]
                    /\ posts' = [posts EXCEPT ![w] = @ + 1]
                    /\ activeJobs' = activeJobs
               ELSE /\ pc' = [pc EXCEPT ![w] = "loop"]
                    /\ posts' = posts
                    /\ activeJobs' = Tracked(w)
       ELSE /\ pc' = [pc EXCEPT ![w] = "failing"]
            /\ err' = [err EXCEPT ![w] = RecordNotFoundMsg]
            /\ UNCHANGED <<jobs, posts, activeJobs>>
    /\ UNCHANGED <<nextId, cur, snapWebhook, hookLog, superseded,
                   hookOverdue, adminOps,
                   delReq, delForce, sideVars>>
\* prisma.job.update to COMPLETED; then the webhook POST when the claimed row
\* carries callbackWebhook, else return true.  A missing row makes the update
\* throw into the inner catch.
FinalizeCompleted(w) ==
    /\ pc[w] = "completing"
    /\ IF Exists(cur[w])
       THEN /\ jobs' = [jobs EXCEPT ![cur[w]].status = "COMPLETED",
                                    ![cur[w]].ocrResult = ResultJson,
                                    ![cur[w]].processedAt = Now]
            /\ err' = err
            /\ IF snapWebhook[w] # Null
               THEN /\ pc' = [pc EXCEPT ![w] = "webhook"]
                    /\ posts' = [posts EXCEPT ![w] = @ + 1]
                    /\ activeJobs' = activeJobs
               ELSE /\ pc' = [pc EXCEPT ![w] = "loop"]
                    /\ posts' = posts
                    /\ activeJobs' = Tracked(w)
       ELSE /\ pc' = [pc EXCEPT ![w] = "failing"]
            /\ err' = [err EXCEPT ![w] = RecordNotFoundMsg]
            /\ UNCHANGED <<jobs, posts, activeJobs>>
    /\ UNCHANGED <<nextId, cur, snapWebhook, hookLog, superseded,
                   hookOverdue, adminOps,
                   delReq, delForce, sideVars>>

\* the failure handler with no catch around it: a FAILED update that finds no
\* row ends the scheduling loop
FinalizeFailedUncaught(w) ==
    /\ pc[w] = "failing"
    /\ IF Exists(cur[w])
       THEN /\ jobs' = [jobs EXCEPT ![cur[w]].status = "FAILED",
                                    ![cur[w]].errorMessage = err[w],
                                    ![cur[w]].processedAt = Now]
            /\ pc' = [pc EXCEPT ![w] = "loop"]
            /\ activeJobs' = Tracked(w)
       ELSE /\ pc' = [pc EXCEPT ![w] = "crashed"]
            /\ UNCHANGED <<jobs, activeJobs>>
    /\ err' = [err EXCEPT ![w] = Null]
    /\ UNCHANGED <<nextId, cur, snapWebhook, posts, hookLog, superseded,
                   hookOverdue, adminOps, delReq, delForce, sideVars>>

\* the inner catch: prisma.job.update to FAILED with error.message, return
\* true.  A missing row makes this update throw into the outer catch, which
\* returns false, and the loop sleeps POLL_INTERVAL.
FinalizeFailed(w) ==
    /\ pc[w] = "failing"
    /\ IF Exists(cur[w])
       THEN /\ jobs' = [jobs EXCEPT ![cur[w]].status = "FAILED",
                                    ![cur[w]].errorMessage = err[w],
                                    ![cur[w]].processedAt = Now]
            /\ pc' = [pc EXCEPT ![w] = "loop"]
            /\ activeJobs' = Tracked(w)
       ELSE /\ pc' = [pc EXCEPT ![w] = "sleep"]
            /\ UNCHANGED <<jobs, activeJobs>>
    /\ err' = [err EXCEPT ![w] = Null]
    /\ UNCHANGED <<nextId, cur, snapWebhook, posts, hookLog, superseded,
                   hookOverdue, adminOps, delReq, delForce, sideVars>>

\* message of a store error raised with the row in place
StoreErrorMsg == "Can't reach database server"

\* the COMPLETED update throws although the row is there (the store is
\* unreachable or rejects the statement): the throw lands in the inner catch
FinalizeCompletedThrows(w) ==
    /\ pc[w] = "completing"
    /\ Exists(cur[w])
    /\ pc' = [pc EXCEPT ![w] = "failing"]
    /\ err' = [err EXCEPT ![w] = StoreErrorMsg]
    /\ UNCHANGED <<jobs, nextId, cur, snapWebhook, activeJobs,
                   posts, hookLog, superseded, hookOverdue, adminOps,
                   delReq, delForce, sideVars>>

\* the FAILED update of the inner catch throws although the row is there: the
\* outer catch returns false and the loop sleeps POLL_INTERVAL
FinalizeFailedThrows(w) ==
    /\ pc[w] = "failing"
    /\ Exists(cur[w])
    /\ pc' = [pc EXCEPT ![w] = "sleep"]
    /\ err' = [err EXCEPT ![w] = Null]
    /\ UNCHANGED <<jobs, nextId, cur, snapWebhook, activeJobs,
                   posts, hookLog, superseded, hookOverdue, adminOps,
                   delReq, delForce, sideVars>>

\* what fetch can settle with
WebhookOutcomes == {"2xx", "non2xx", "transport error"}

\* sendCallback and processNextJob without their catch: a failed delivery
\* reaches the failure handler of processNextJob
WebhookRethrown(outcome) == IF outcome = "2xx" THEN "loop" ELSE "failing"
\* where processNextJob goes once sendCallback has settled: sendCallback
\* catches its own throw and processNextJob catches around the call
AfterWebhook(outcome) == "loop"

\* sendCallback's line in the log
WebhookLogLine(outcome) == IF outcome = "2xx" THEN "sent" ELSE "failed"

\* fetch settles: sendCallback logs and returns, processNextJob returns true
WebhookSettle(w) ==
    /\ pc[w] = "webhook"
    /\ \E outcome \in WebhookOutcomes :
          /\ pc' = [pc EXCEPT ![w] = AfterWebhook(outcome)]
          /\ hookLog' = [hookLog EXCEPT ![w] = WebhookLogLine(outcome)]
          /\ hookOverdue' = [hookOverdue EXCEPT ![w] = FALSE]
          /\ IF AfterWebhook(outcome) = "loop"
             THEN /\ activeJobs' = Tracked(w)
                  /\ err' = err
             ELSE /\ activeJobs' = activeJobs
                  /\ err' = [err EXCEPT ![w] = "Webhook returned status"]
    /\ UNCHANGED <<jobs, nextId, cur, snapWebhook, posts, superseded,
                   adminOps, delReq, delForce, sideVars>>

\* the delivery budget (30 s) runs out with the POST unanswered: fetch was
\* given no signal and no timeout, so nothing in the worker reacts
WebhookBudgetElapses(w) ==
    /\ pc[w] = "webhook"
    /\ ~hookOverdue[w]
    /\ hookOverdue' = [hookOverdue EXCEPT ![w] = TRUE]
    /\ UNCHANGED <<jobs, nextId, pc, cur, snapWebhook, err, activeJobs, posts,
                   hookLog, superseded, adminOps, delReq, delForce, sideVars>>

\* the setTimeout of the loop (POLL_INTERVAL or 500 ms) fires
Wake(w) ==
    /\ pc[w] = "sleep"
    /\ pc' = [pc EXCEPT ![w] = "loop"]
    /\ UNCHANGED <<jobs, nextId, cur, snapWebhook, err,
                   activeJobs, posts, hookLog, superseded, hookOverdue,
                   adminOps, delReq, delForce, sideVars>>

\* the scheduling loop up to a successful claim
ClaimStep(w) ==
    \/ AtCapacity(w)
    \/ PollEmpty(w)
    \/ FindPending(w)
    \/ ClaimUpdate(w)
    \/ Wake(w)

\* processNextJob from the claim to its return, the webhook's answer apart
RunStep(w) ==
    \/ Revalidate(w)
    \/ OcrSettle(w)
    \/ OcrTimeout(w)
    \/ FinalizeCompleted(w)
    \/ FinalizeFailed(w)

WorkerStep(w) ==
    \/ ClaimStep(w)
    \/ ClaimUpdateMissing(w)
    \/ RunStep(w)
    \/ WebhookBudgetElapses(w)
    \/ WebhookSettle(w)

\* ---- admin routes ----

\* what a PATCH body can carry in status and in errorMessage (Null: absent)
PatchStatuses == Statuses \cup {Null, "BOGUS"}
PatchMessages == {Null, "", "operator note"}

\* JavaScript truthiness of an optional string
Truthy(x) == x # Null /\ x # ""

\* updateData of the PATCH handler applied to a row
PatchRow(row, status, errorMessage) ==
    IF ~Truthy(status) THEN row
    ELSE LET r1 == [row EXCEPT !.status = status]
             r2 == IF status = "PENDING"
                   THEN [r1 EXCEPT !.errorMessage = Null, !.processedAt = Null]
                   ELSE r1
         IN  IF status = "FAILED" /\ Truthy(errorMessage)
             THEN [r2 EXCEPT !.errorMessage = errorMessage, !.processedAt = Now]
             ELSE r2

\* PATCH /api/admin/jobs/{id}: 400 on an invalid status, 500 when the update
\* finds no row, else one update of the row
Patch(j, status, errorMessage) ==
    /\ adminOps < MaxAdminOps
    /\ adminOps' = adminOps + 1
    /\ IF Truthy(status) /\ status \notin validStatuses
       THEN jobs' = jobs
       ELSE IF ~Exists(j)
            THEN jobs' = jobs
            ELSE jobs' = [jobs EXCEPT ![j] = PatchRow(@, status, errorMessage)]
    /\ UNCHANGED <<nextId, workerVars, delReq, delForce, sideVars>>

\* DELETE /api/admin/jobs/{id}, up to its delete: 404 for no row, 400 for a
\* PROCESSING row without force=true
DeleteCheck(j, force) ==
    /\ adminOps < MaxAdminOps
    /\ delReq = 0
    /\ adminOps' = adminOps + 1
    /\ IF ~Exists(j) \/ (jobs[j].status = "PROCESSING" /\ ~force)
       THEN delReq' = 0 /\ delForce' = FALSE
       ELSE delReq' = j /\ delForce' = force
    /\ UNCHANGED <<jobs, nextId, workerVars, sideVars>>

\* prisma.job.delete of the DELETE handler: 200, or 500 when the row is gone
DeleteRow ==
    /\ delReq # 0
    /\ jobs' = [jobs EXCEPT ![delReq] = NoRow]
    /\ delReq' = 0
    /\ delForce' = FALSE
    /\ UNCHANGED <<nextId, workerVars, adminOps, sideVars>>

Next ==
    \/ Upload
    \/ \E w \in Workers : WorkerStep(w)
    \/ \E j \in 1..MaxJobs, status \in PatchStatuses,
          errorMessage \in PatchMessages : Patch(j, status, errorMessage)
    \/ \E j \in 1..MaxJobs, force \in BOOLEAN : DeleteCheck(j, force)
    \/ DeleteRow

Spec == Init /\ [][Next]_vars

\* ---- one scheduler process, no admin request ----
Scheduler == "w1"

SchedulerNext ==
    \/ CreateJob(MaxLiveJobs)
    \/ ClaimStep(Scheduler)
    \/ RunStep(Scheduler)
    \/ WebhookBudgetElapses(Scheduler)
    \/ WebhookSettle(Scheduler)

\* the event loop runs every continuation and timer that is due, and every
\* webhook endpoint answers or the connection fails
SchedulerSpec ==
    /\ Init
    /\ [][SchedulerNext]_vars
    /\ WF_vars(\/ ClaimStep(Scheduler)
               \/ RunStep(Scheduler)
               \/ WebhookSettle(Scheduler))

\* ---- one scheduler process whose store writes can fail ----
FaultNext ==
    \/ SchedulerNext
    \/ FinalizeCompletedThrows(Scheduler)
    \/ FinalizeFailedThrows(Scheduler)

FaultSpec == Init /\ [][FaultNext]_vars

\* ---- one scheduler process and the admin routes ----
AdminNext ==
    \/ CreateJob(MaxAdminJobs)
    \/ WorkerStep(Scheduler)
    \/ \E j \in 1..MaxAdminJobs, status \in PatchStatuses,
          errorMessage \in PatchMessages : Patch(j, status, errorMessage)
    \/ \E j \in 1..MaxAdminJobs, force \in BOOLEAN : DeleteCheck(j, force)
    \/ DeleteRow

\* the event loop runs every continuation and timer that is due, every
\* webhook endpoint answers, and a DELETE handler goes on to its delete
AdminSpec ==
    /\ Init
    /\ [][AdminNext]_vars
    /\ WF_vars(\/ ClaimStep(Scheduler)
               \/ ClaimUpdateMissing(Scheduler)
               \/ RunStep(Scheduler)
               \/ WebhookSettle(Scheduler))
    /\ WF_vars(DeleteRow)

\* ---- one scheduler process and the DELETE route ----
DeleteNext ==
    \/ CreateJob(MaxAdminJobs)
    \/ ClaimStep(Scheduler)
    \/ ClaimUpdateMissing(Scheduler)
    \/ RunStep(Scheduler)
    \/ WebhookSettle(Scheduler)
    \/ \E j \in 1..MaxAdminJobs, force \in BOOLEAN : DeleteCheck(j, force)
    \/ DeleteRow

\* the event loop runs every continuation and timer that is due, every
\* webhook endpoint answers, and a DELETE handler goes on to its delete
DeleteSpec ==
    /\ Init
    /\ [][DeleteNext]_vars
    /\ WF_vars(\/ ClaimStep(Scheduler)
               \/ ClaimUpdateMissing(Scheduler)
               \/ RunStep(Scheduler)
               \/ WebhookSettle(Scheduler))
    /\ WF_vars(DeleteRow)

\* ---- one scheduler process that is sent SIGINT or SIGTERM ----

\* the signal arrives: the handler logs and starts prisma.$disconnect()
Signal(w) ==
    /\ sig[w] = "running"
    /\ sig' = [sig EXCEPT ![w] = "disconnecting"]
    /\ sigJob' = [sigJob EXCEPT ![w] = IF Holds(w) THEN cur[w] ELSE 0]
    /\ UNCHANGED <<jobs, nextId, workerVars, adminOps, delReq, delForce,
                   resp, view, engineVars>>

\* $disconnect has settled: process.exit(0)
Exit(w) ==
    /\ sig[w] = "disconnecting"
    /\ sig' = [sig EXCEPT ![w] = "exited"]
    /\ UNCHANGED <<jobs, nextId, workerVars, adminOps, delReq, delForce,
                   sigJob, resp, view, engineVars>>

\* a process that has exited runs nothing
ShutdownNext ==
    \/ CreateJob(MaxLiveJobs)
    \/ sig[Scheduler] # "exited" /\ ClaimStep(Scheduler)
    \/ sig[Scheduler] # "exited" /\ RunStep(Scheduler)
    \/ sig[Scheduler] # "exited" /\ WebhookBudgetElapses(Scheduler)
    \/ sig[Scheduler] # "exited" /\ WebhookSettle(Scheduler)
    \/ Signal(Scheduler)
    \/ Exit(Scheduler)

ShutdownSpec == Init /\ [][ShutdownNext]_vars

\* ---- the stuck-job reports ----

\* the reports' threshold, 10 * 60 * 1000 ms, in clock ticks of 5 minutes
TEN_MINUTES == 2

Times == 0..MaxClock

\* a row as a report reads it and the clock at the read: created, last
\* updated (@updatedAt: by every write) and read in that order; processedAt
\* is null or the time of some write; a PENDING row has none
Views ==
    {v \in [status : Statuses, createdAt : Times, updatedAt : Times,
            processedAt : Times \cup {NoTime}, now : Times,
            stats : {"unasked"}, list : {"unasked"}, detail : {"unasked"}] :
        /\ v.createdAt <= v.updatedAt
        /\ v.updatedAt <= v.now
        /\ v.processedAt # NoTime
              => (v.createdAt <= v.processedAt /\ v.processedAt <= v.updatedAt)
        /\ v.status = "PENDING" => v.processedAt = NoTime}

StuckInit ==
    /\ QueueInit
    /\ view \in Views
    /\ probe = NoProbe
    /\ align = NoAlign

\* GET /api/admin/stats: status PROCESSING and updatedAt < now - 10 minutes
StatsStuck(v) ==
    v.status = "PROCESSING" /\ v.updatedAt < v.now - TEN_MINUTES

\* processingTime of the jobs list and of the job detail
ProcessingTime(v) ==
    IF v.processedAt # NoTime THEN v.processedAt - v.createdAt
                              ELSE v.now - v.createdAt

\* GET /api/admin/jobs: isStuck of a listed row
ListIsStuck(v) ==
    v.status = "PROCESSING" /\ ProcessingTime(v) > TEN_MINUTES

\* GET /api/admin/jobs/{id}: isStuck
DetailIsStuck(v) ==
    v.status = "PROCESSING" /\ ProcessingTime(v) > TEN_MINUTES

Answer(stuck) == IF stuck THEN "stuck" ELSE "fine"

GetStats ==
    /\ view.stats = "unasked"
    /\ view' = [view EXCEPT !.stats = Answer(StatsStuck(view))]
    /\ UNCHANGED <<jobs, nextId, workerVars, adminOps, delReq, delForce,
                   sig, sigJob, resp, engineVars>>

GetJobsList ==
    /\ view.list = "unasked"
    /\ view' = [view EXCEPT !.list = Answer(ListIsStuck(view))]
    /\ UNCHANGED <<jobs, nextId, workerVars, adminOps, delReq, delForce,
                   sig, sigJob, resp, engineVars>>

GetJobDetail ==
    /\ view.detail = "unasked"
    /\ view' = [view EXCEPT !.detail = Answer(DetailIsStuck(view))]
    /\ UNCHANGED <<jobs, nextId, workerVars, adminOps, delReq, delForce,
                   sig, sigJob, resp, engineVars>>

StuckNext ==
    \/ GetStats
    \/ GetJobsList
    \/ GetJobDetail

StuckSpec == StuckInit /\ [][StuckNext]_vars

\* ---- POST /api/upload, the whole handler ----

\* uploaded bytes, named by what the decoders make of them
Files ==
    {"png", "jpeg", "pdf", "pdf malformed", "gif", "text", "oversize jpeg"}

\* buffer.length > MAX_FILE_SIZE
TooLarge(file) == file = "oversize jpeg"

\* fileType.fromBuffer(buffer).mime, Null when nothing is detected
FromBuffer(file) ==
    CASE file = "png" -> "image/png"
      [] file \in {"jpeg", "oversize jpeg"} -> "image/jpeg"
      [] file \in {"pdf", "pdf malformed"} -> "application/pdf"
      [] file = "gif" -> "image/gif"
      [] OTHER -> Null

\* sharp reads and resizes the image, or pdf-lib loads the PDF with 1..500
\* pages
Decodes(file) == file # "pdf malformed"

ALLOWED_TYPES ==
    {"image/png", "image/jpeg", "image/tiff", "image/bmp", "image/webp",
     "application/pdf"}

\* file.type as the client states it
ClaimedTypes == {"image/png", "image/jpg", "IMAGE/JPEG ", "application/pdf"}

\* mimeType.toLowerCase().trim()
LowerTrim(m) == IF m = "IMAGE/JPEG " THEN "image/jpeg" ELSE m

normalizeMimeType(m) ==
    LET normalized == LowerTrim(m)
    IN  IF normalized = "image/jpg" THEN "image/jpeg"
        ELSE IF normalized = "image/tif" THEN "image/tiff"
        ELSE normalized

Invalid == [isValid |-> FALSE, detectedType |-> Null]

validateFile(file, claimedMimeType) ==
    IF TooLarge(file) THEN Invalid
    ELSE LET detected == FromBuffer(file)
         IN  IF detected = Null THEN Invalid
             ELSE IF detected \notin ALLOWED_TYPES THEN Invalid
             ELSE IF normalizeMimeType(claimedMimeType)
                        # normalizeMimeType(detected) THEN Invalid
             ELSE IF ~Decodes(file) THEN Invalid
             ELSE [isValid |-> TRUE, detectedType |-> detected]

\* ---- FileValidationService, check by check ----

MAX_FILE_SIZE == 52428800
MAX_IMAGE_PIXELS == 178956970
MAX_IMAGE_DIMENSION == 50000
MAX_PDF_PAGES == 500

\* buffers by what the checks read of them: length, the mime type
\* fileType.fromBuffer detects (Null: none), and what the decoder finds,
\* width and height for an image (0: metadata has none), pageCount for a
\* PDF, and whether sharp's resize or pdf-lib's load gets through
ImageBuffers ==
    [length : {1, MAX_FILE_SIZE, MAX_FILE_SIZE + 1},
     mime : {"image/png", "image/jpeg", "image/gif"},
     width : {0, 1, 3683, MAX_IMAGE_DIMENSION, MAX_IMAGE_DIMENSION + 1},
     height : {0, 1, 48590, 48591, MAX_IMAGE_DIMENSION,
               MAX_IMAGE_DIMENSION + 1, MAX_IMAGE_PIXELS + 1},
     pageCount : {0}, decodes : BOOLEAN]

PdfBuffers ==
    [length : {1, MAX_FILE_SIZE, MAX_FILE_SIZE + 1},
     mime : {"application/pdf"}, width : {0}, height : {0},
     pageCount : {0, 1, MAX_PDF_PAGES, MAX_PDF_PAGES + 1}, decodes : BOOLEAN]

OtherBuffers ==
    [length : {1, MAX_FILE_SIZE, MAX_FILE_SIZE + 1}, mime : {Null},
     width : {0}, height : {0}, pageCount : {0}, decodes : {FALSE}]

Buffers == ImageBuffers \cup PdfBuffers \cup OtherBuffers

\* file.type as the client states it, for the buffers above
BufferClaims == {"image/png", "image/jpg", "image/gif", "application/pdf"}

FileSizeError == "File size exceeds maximum"
UndetectedError == "Unable to detect file type"
UnsupportedError == "File type is not supported"
MismatchError == "File type mismatch"
NoDimensionsError == "Unable to read image dimensions"
DimensionsError == "Image dimensions exceed maximum"
PixelsError == "Image has too many pixels"
ImageFailedError == "Image validation failed"
NoPagesError == "PDF has no pages"
PagesError == "PDF has too many pages"
PdfFailedError == "PDF validation failed"

Rejected(error) == [isValid |-> FALSE, error |-> error, detectedType |-> Null]
Accepted(mime) == [isValid |-> TRUE, error |-> Null, detectedType |-> mime]

\* width * height > MAX_IMAGE_PIXELS, with the limit itself taken as too many
ExceedsPixelsAtLimit(width, height) ==
    width > 0 /\ height >= MAX_IMAGE_PIXELS \div width
\* width * height > MAX_IMAGE_PIXELS; the product of two dimensions is exact
\* in a double and may pass 2^31, so it is compared by the quotient
ExceedsPixels(width, height) ==
    width > 0 /\ height > MAX_IMAGE_PIXELS \div width

\* sharp(buffer, {limitInputPixels}).metadata() throws over the pixel limit
\* and the catch answers; then the dimension and pixel checks and the resize
validateImage(buffer) ==
    IF ExceedsPixels(buffer.width, buffer.height)
    THEN Rejected(ImageFailedError)
    ELSE IF buffer.width = 0 \/ buffer.height = 0
    THEN Rejected(NoDimensionsError)
    ELSE IF \/ buffer.width > MAX_IMAGE_DIMENSION
            \/ buffer.height > MAX_IMAGE_DIMENSION
    THEN Rejected(DimensionsError)
    ELSE IF ExceedsPixels(buffer.width, buffer.height)
    THEN Rejected(PixelsError)
    ELSE IF ~buffer.decodes THEN Rejected(ImageFailedError)
    ELSE Accepted(buffer.mime)

\* PDFDocument.load throws on a malformed or encrypted file; then the page
\* count checks
validatePDF(buffer) ==
    IF ~buffer.decodes THEN Rejected(PdfFailedError)
    ELSE IF buffer.pageCount = 0 THEN Rejected(NoPagesError)
    ELSE IF buffer.pageCount > MAX_PDF_PAGES THEN Rejected(PagesError)
    ELSE Accepted("application/pdf")

\* detectedType.mime.startsWith('image/')
IsImage(mime) == mime \in {"image/png", "image/jpeg", "image/gif",
                           "image/tiff", "image/bmp", "image/webp"}

\* validateFile with the claimed type compared before the allow-list
validateBufferMatchFirst(buffer, claimedMimeType) ==
    IF buffer.length > MAX_FILE_SIZE THEN Rejected(FileSizeError)
    ELSE IF buffer.mime = Null THEN Rejected(UndetectedError)
    ELSE IF normalizeMimeType(claimedMimeType) # normalizeMimeType(buffer.mime)
    THEN Rejected(MismatchError)
    ELSE IF buffer.mime \notin ALLOWED_TYPES THEN Rejected(UnsupportedError)
    ELSE IF IsImage(buffer.mime) THEN validateImage(buffer)
    ELSE IF buffer.mime = "application/pdf" THEN validatePDF(buffer)
    ELSE Accepted(buffer.mime)
\* validateFile on such a buffer, with the error it returns
validateBuffer(buffer, claimedMimeType) ==
    IF buffer.length > MAX_FILE_SIZE THEN Rejected(FileSizeError)
    ELSE IF buffer.mime = Null THEN Rejected(UndetectedError)
    ELSE IF buffer.mime \notin ALLOWED_TYPES THEN Rejected(UnsupportedError)
    ELSE IF normalizeMimeType(claimedMimeType) # normalizeMimeType(buffer.mime)
    THEN Rejected(MismatchError)
    ELSE IF IsImage(buffer.mime) THEN validateImage(buffer)
    ELSE IF buffer.mime = "application/pdf" THEN validatePDF(buffer)
    ELSE Accepted(buffer.mime)

\* a buffer and a claimed type are given
ValidatorInit ==
    /\ QueueInit
    /\ view = NoView
    /\ align = NoAlign
    /\ \E buffer \in Buffers, claimedMimeType \in BufferClaims :
          probe = [done |-> FALSE, buffer |-> buffer,
                   claimed |-> claimedMimeType, result |-> Rejected(Null)]

\* the call returns
ValidateFile ==
    /\ ~probe.done
    /\ probe' = [probe EXCEPT !.done = TRUE,
                              !.result = validateBuffer(probe.buffer,
                                                        probe.claimed)]
    /\ UNCHANGED <<jobs, nextId, workerVars, adminOps, delReq, delForce,
                   sig, sigJob, resp, view, statusAns, pdf, tmp, align>>

ValidatorNext == ValidateFile

ValidatorSpec == ValidatorInit /\ [][ValidatorNext]_vars

\* ---- detectAlignment ----

\* page widths in pixels for which pageWidth * 0.1, * 0.2 and * 0.05 are
\* whole numbers in double arithmetic, so that the comparisons below, scaled
\* to integers, decide as the code's do
PageWidths == {100, 200}

\* x coordinates on a page: every fiftieth of the width
Coordinates(pageWidth) == {k * (pageWidth \div 50) : k \in 0..50}

Abs(x) == IF x < 0 THEN -x ELSE x

\* leftMargin = x0, rightMargin = pageWidth - x1,
\* centerPos - pageCenter = (x0 + x1 - pageWidth) / 2
detectAlignment(x0, x1, pageWidth) ==
    LET leftMargin == x0
        rightMargin == pageWidth - x1
    IN  IF 5 * Abs(x0 + x1 - pageWidth) < pageWidth THEN "center"
        ELSE IF 10 * rightMargin < pageWidth /\ 5 * leftMargin > pageWidth
        THEN "right"
        ELSE IF /\ 20 * Abs(leftMargin - rightMargin) < pageWidth
                /\ 10 * leftMargin < pageWidth
        THEN "justified"
        ELSE "left"

\* a line's bounding box on a page
AlignInit ==
    /\ QueueInit
    /\ view = NoView
    /\ probe = NoProbe
    /\ \E pageWidth \in PageWidths :
          \E x0 \in Coordinates(pageWidth), x1 \in Coordinates(pageWidth) :
             /\ x0 <= x1
             /\ align = [done |-> FALSE, x0 |-> x0, x1 |-> x1,
                         pageWidth |-> pageWidth, label |-> Null]

\* the call returns
DetectAlignment ==
    /\ ~align.done
    /\ align' = [align EXCEPT !.done = TRUE,
                              !.label = detectAlignment(align.x0, align.x1,
                                                        align.pageWidth)]
    /\ UNCHANGED <<jobs, nextId, workerVars, adminOps, delReq, delForce,
                   sig, sigJob, resp, view, statusAns, probe, pdf, tmp>>

AlignNext == DetectAlignment

AlignSpec == AlignInit /\ [][AlignNext]_vars

\* ---- processPDF, the image path: pages in batches ----

\* parseInt(process.env.PDF_PAGE_CONCURRENCY || '4', 10), the variable unset
maxConcurrentPages == 4

Min(a, b) == IF a < b THEN a ELSE b

\* pageNumbers.slice(i, i + maxConcurrentPages), pageNumbers being 1..numpages
Batch(i, numpages) ==
    [k \in 1..(Min(i + maxConcurrentPages, numpages) - i) |-> i + k]

\* the elements of a sequence that pass a test, in the sequence's order
RECURSIVE Filter(_, _)
Filter(seq, keep) ==
    IF seq = <<>> THEN <<>>
    ELSE IF Head(seq) \in keep THEN <<Head(seq)>> \o Filter(Tail(seq), keep)
    ELSE Filter(Tail(seq), keep)

\* the batch's results taken in the order the pages settled
BatchResultsAsSettled(batch, settled, bad) ==
    Filter(settled, {p \in 1..MaxPages : p \notin bad})
\* await Promise.all(batch.map(processPage)), nulls filtered out: one result
\* per page at the page's place in the batch, whatever the settling order
BatchResults(batch, settled, bad) ==
    Filter(batch, {p \in 1..MaxPages : p \notin bad})

\* an image PDF of 1..MaxPages pages, some of which make processImage throw;
\* gs has rastered it and the loop is at i = 0
PdfInit ==
    /\ jobs = [j \in JobIds |-> NoRow]
    /\ nextId = 1
    /\ IdleInit
    /\ view = NoView
    /\ probe = NoProbe
    /\ align = NoAlign
    /\ \E numpages \in 1..MaxPages :
          \E bad \in SUBSET (1..numpages) :
             pdf = [phase |-> "loop", numpages |-> numpages, bad |-> bad,
                    i |-> 0, batch |-> <<>>, running |-> {},
                    settled |-> <<>>, pageResults |-> <<>>]

\* the loop body up to the await: every page of the batch starts
StartBatch ==
    /\ pdf.phase = "loop"
    /\ pdf.i < pdf.numpages
    /\ pdf' = [pdf EXCEPT !.phase = "await",
                          !.batch = Batch(pdf.i, pdf.numpages),
                          !.running = {Batch(pdf.i, pdf.numpages)[k] :
                                         k \in DOMAIN Batch(pdf.i, pdf.numpages)},
                          !.settled = <<>>]
    /\ UNCHANGED <<jobs, nextId, workerVars, adminOps, delReq, delForce,
                   sig, sigJob, resp, view, statusAns, probe, tmp, align>>

\* processPage(p) settles: with the page's result, or with null after the
\* catch
PageSettles(p) ==
    /\ pdf.phase = "await"
    /\ p \in pdf.running
    /\ pdf' = [pdf EXCEPT !.running = @ \ {p},
                          !.settled = Append(@, p)]
    /\ UNCHANGED <<jobs, nextId, workerVars, adminOps, delReq, delForce,
                   sig, sigJob, resp, view, statusAns, probe, tmp, align>>

\* Promise.all resolves: the non-null results are pushed, i += the batch size
BatchDone ==
    /\ pdf.phase = "await"
    /\ pdf.running = {}
    /\ pdf' = [pdf EXCEPT !.phase = "loop",
                          !.pageResults =
                              @ \o BatchResults(pdf.batch, pdf.settled, pdf.bad),
                          !.i = @ + maxConcurrentPages]
    /\ UNCHANGED <<jobs, nextId, workerVars, adminOps, delReq, delForce,
                   sig, sigJob, resp, view, statusAns, probe, tmp, align>>

\* after the loop: throw when no page gave a result, else merge the results
Combine ==
    /\ pdf.phase = "loop"
    /\ pdf.i >= pdf.numpages
    /\ pdf' = [pdf EXCEPT !.phase = IF pdf.pageResults = <<>> THEN "threw"
                                                               ELSE "returned"]
    /\ UNCHANGED <<jobs, nextId, workerVars, adminOps, delReq, delForce,
                   sig, sigJob, resp, view, statusAns, probe, tmp, align>>

PdfNext ==
    \/ StartBatch
    \/ \E p \in 1..MaxPages : PageSettles(p)
    \/ BatchDone
    \/ Combine

PdfSpec == PdfInit /\ [][PdfNext]_vars

\* ---- callPaddleOCR and its temporary file ----

\* the clock of the host passes a millisecond
DateNowAdvances ==
    /\ tmp.clock < MaxTicks
    /\ tmp' = [tmp EXCEPT !.clock = @ + 1]
    /\ UNCHANGED <<jobs, nextId, workerVars, adminOps, delReq, delForce,
                   sig, sigJob, resp, view, statusAns, probe, pdf, align>>

\* tempFilePath = path.join(os.tmpdir(), `ocr_${Date.now()}.png`)
NameTempFile(c) ==
    /\ tmp.calls[c].pc = "idle"
    /\ tmp' = [tmp EXCEPT !.calls[c].pc = "named",
                          !.calls[c].path = tmp.clock]
    /\ UNCHANGED <<jobs, nextId, workerVars, adminOps, delReq, delForce,
                   sig, sigJob, resp, view, statusAns, probe, pdf, align>>

\* await writeFile(tempFilePath, fileBuffer)
WriteTempFile(c) ==
    /\ tmp.calls[c].pc = "named"
    /\ tmp' = [tmp EXCEPT !.calls[c].pc = "written",
                          !.files[tmp.calls[c].path] = c]
    /\ UNCHANGED <<jobs, nextId, workerVars, adminOps, delReq, delForce,
                   sig, sigJob, resp, view, statusAns, probe, pdf, align>>

\* python3 paddle_ocr.py tempFilePath: the script reads what the path holds
\* now; it fails on a missing file and may fail on any
RunEngine(c) ==
    /\ tmp.calls[c].pc = "written"
    /\ \E ok \in BOOLEAN :
          tmp' = [tmp EXCEPT
                     !.calls[c].read = tmp.files[tmp.calls[c].path],
                     !.calls[c].pc =
                         IF ok /\ tmp.files[tmp.calls[c].path] # "none"
                         THEN "ran" ELSE "threw"]
    /\ UNCHANGED <<jobs, nextId, workerVars, adminOps, delReq, delForce,
                   sig, sigJob, resp, view, statusAns, probe, pdf, align>>

\* finally: unlink(tempFilePath), its error ignored; the call returns or
\* rethrows
UnlinkTempFile(c) ==
    /\ tmp.calls[c].pc \in {"ran", "threw"}
    /\ tmp' = [tmp EXCEPT
                  !.calls[c].pc = IF tmp.calls[c].pc = "ran" THEN "returned"
                                                             ELSE "rethrown",
                  !.files[tmp.calls[c].path] = "none"]
    /\ UNCHANGED <<jobs, nextId, workerVars, adminOps, delReq, delForce,
                   sig, sigJob, resp, view, statusAns, probe, pdf, align>>

TempNext ==
    \/ DateNowAdvances
    \/ \E c \in Invocations :
          \/ NameTempFile(c)
          \/ WriteTempFile(c)
          \/ RunEngine(c)
          \/ UnlinkTempFile(c)

TempSpec == Init /\ [][TempNext]_vars

\* ---- the webhook URL validator of the upload schema ----

\* callbackWebhook as the form carries it
WebhookUrls ==
    {"https://example.com/hook", "http://LOCALHOST/hook",
     "http://127.0.0.1/hook", "http://2130706433/hook", "http://0.0.0.0/hook",
     "http://[::1]/hook", "http://[2001:db8::1]/hook", "http://10.1.2.3/hook",
     "http://10.65793/hook", "http://11.0.0.1/hook", "http://172.15.0.1/hook",
     "http://172.16.0.1/hook", "http://172.31.255.255/hook",
     "http://172.32.0.1/hook", "http://192.168.1.1/hook",
     "http://169.254.169.254/hook", "not a url"}

Domain(labels) == [kind |-> "domain", labels |-> labels, parts |-> <<>>]
V4(parts) == [kind |-> "v4", labels |-> <<>>, parts |-> parts]
V6(groups) == [kind |-> "v6", labels |-> <<>>, parts |-> groups]

\* the host of new URL(url) as written, before the host parser normalises
\* it: the labels of a domain, the numbers of an IPv4 host, the 16-bit groups
\* of an IPv6 host; "none" where new URL throws
HostAsWritten(url) ==
    CASE url = "https://example.com/hook" -> Domain(<<"example", "com">>)
      [] url = "http://LOCALHOST/hook" -> Domain(<<"LOCALHOST">>)
      [] url = "http://127.0.0.1/hook" -> V4(<<127, 0, 0, 1>>)
      [] url = "http://2130706433/hook" -> V4(<<2130706433>>)
      [] url = "http://0.0.0.0/hook" -> V4(<<0, 0, 0, 0>>)
      [] url = "http://[::1]/hook" -> V6(<<0, 0, 0, 0, 0, 0, 0, 1>>)
      [] url = "http://[2001:db8::1]/hook"
            -> V6(<<8193, 3512, 0, 0, 0, 0, 0, 1>>)
      [] url = "http://10.1.2.3/hook" -> V4(<<10, 1, 2, 3>>)
      [] url = "http://10.65793/hook" -> V4(<<10, 65793>>)
      [] url = "http://11.0.0.1/hook" -> V4(<<11, 0, 0, 1>>)
      [] url = "http://172.15.0.1/hook" -> V4(<<172, 15, 0, 1>>)
      [] url = "http://172.16.0.1/hook" -> V4(<<172, 16, 0, 1>>)
      [] url = "http://172.31.255.255/hook" -> V4(<<172, 31, 255, 255>>)
      [] url = "http://172.32.0.1/hook" -> V4(<<172, 32, 0, 1>>)
      [] url = "http://192.168.1.1/hook" -> V4(<<192, 168, 1, 1>>)
      [] url = "http://169.254.169.254/hook" -> V4(<<169, 254, 169, 254>>)
      [] OTHER -> [kind |-> "none", labels |-> <<>>, parts |-> <<>>]

RECURSIVE Pow256(_)
Pow256(n) == IF n = 0 THEN 1 ELSE 256 * Pow256(n - 1)

\* the four octets of an IPv4 host: each number but the last is one octet,
\* the last fills the octets that remain
Octets(parts) ==
    LET k == Len(parts)
    IN  [i \in 1..4 |-> IF i < k THEN parts[i]
                       ELSE (parts[k] \div Pow256(4 - i)) % 256]

\* the host serialiser for IPv6: the longest run of zero groups becomes "::"
SerializeV6(groups) ==
    IF groups = <<0, 0, 0, 0, 0, 0, 0, 1>> THEN "[::1]"
    ELSE "[2001:db8::1]"

ToLowerCase(label) == IF label = "LOCALHOST" THEN "localhost" ELSE label

\* parsed.hostname.toLowerCase(), as its dot-separated labels
Hostname(url) ==
    LET h == HostAsWritten(url)
    IN  CASE h.kind = "domain"
               -> [i \in 1..Len(h.labels) |-> ToLowerCase(h.labels[i])]
          [] h.kind = "v4"
               -> [i \in 1..4 |-> ToString(Octets(h.parts)[i])]
          [] h.kind = "v6" -> <<SerializeV6(h.parts)>>
          [] OTHER -> <<>>

blockedHostnames ==
    {<<"localhost">>, <<"127", "0", "0", "1">>, <<"0", "0", "0", "0">>,
     <<"::1">>, <<"[::1]">>}

\* hostname.startsWith(prefix + '.') for a prefix of whole labels
StartsWith(hostname, prefix) ==
    /\ Len(hostname) > Len(prefix)
    /\ SubSeq(hostname, 1, Len(prefix)) = prefix

\* the refine with the last alternative of its pattern left out:
\* /^172\.(1[6-9]|2[0-9])\./
RefineShortPattern(url) ==
    LET hostname == Hostname(url)
    IN  /\ hostname \notin blockedHostnames
        /\ ~StartsWith(hostname, <<"192", "168">>)
        /\ ~StartsWith(hostname, <<"10">>)
        /\ ~(\E n \in 16..29 : StartsWith(hostname, <<"172", ToString(n)>>))
        /\ ~StartsWith(hostname, <<"169", "254">>)
\* the refine of webhookUrlValidator on a string that new URL accepts
Refine(url) ==
    LET hostname == Hostname(url)
    IN  /\ hostname \notin blockedHostnames
        /\ ~StartsWith(hostname, <<"192", "168">>)
        /\ ~StartsWith(hostname, <<"10">>)
        /\ ~(\E n \in 16..31 : StartsWith(hostname, <<"172", ToString(n)>>))
        /\ ~StartsWith(hostname, <<"169", "254">>)

\* webhookUrlValidator: z.string().url() and then the refine
webhookUrlValidator(url) ==
    /\ HostAsWritten(url).kind # "none"
    /\ Refine(url)

\* what the form can carry in callbackWebhook (Null: the field is absent)
WebhookFields == WebhookUrls \cup {Null, ""}

\* uploadSchema.safeParse(...).success; emailOk: email is an e-mail address
uploadSchema(documentType, emailOk, callbackWebhook) ==
    /\ documentType # ""
    /\ emailOk
    /\ Truthy(callbackWebhook) => webhookUrlValidator(callbackWebhook)

\* mimeType of the created row, with the claimed type written for the
\* detected one
ClaimedMimeType(detectedType, claimed) == claimed
\* mimeType of the created row: validationResult.detectedType || file.type
StoredMimeType(detectedType, claimed) ==
    IF Truthy(detectedType) THEN detectedType ELSE claimed

Answered(code, id, file) == [code |-> code, id |-> id, file |-> file]

\* POST /api/upload: 400 for no file, for a schema failure and for a failed
\* file validation; 500 when prisma.job.create throws; else one created row
\* and 201
UploadRequest(limit, hasFile, documentType, emailOk, webhook, file, claimed, createThrows) ==
    /\ nextId <= limit
    /\ LET validationResult == validateFile(file, claimed)
           rejected == \/ ~hasFile
                       \/ ~uploadSchema(documentType, emailOk, webhook)
                       \/ ~validationResult.isValid
       IN  IF rejected
           THEN /\ resp' = Answered(400, 0, file)
                /\ UNCHANGED <<jobs, nextId>>
           ELSE IF createThrows
           THEN /\ resp' = Answered(500, 0, file)
                /\ UNCHANGED <<jobs, nextId>>
           ELSE /\ jobs' = [jobs EXCEPT ![nextId] =
                              NewJob(IF Truthy(webhook)
                                     THEN webhook ELSE Null,
                                     StoredMimeType(
                                         validationResult.detectedType,
                                         claimed),
                                     nextId)]
                /\ nextId' = nextId + 1
                /\ resp' = Answered(201, nextId, file)
    /\ UNCHANGED <<workerVars, adminOps, delReq, delForce, sig, sigJob, view,
                   engineVars>>

\* ---- uploads of every kind ----
UploadNext ==
    \E hasFile \in BOOLEAN, documentType \in {"", "invoice"},
       emailOk \in BOOLEAN,
       callbackWebhook \in {Null, "", "https://example.com/hook",
                            "http://11.0.0.1/hook", "http://10.1.2.3/hook"},
       file \in Files, claimed \in ClaimedTypes, createThrows \in BOOLEAN :
       UploadRequest(MaxUploads, hasFile, documentType, emailOk,
                     callbackWebhook, file, claimed, createThrows)

UploadSpec == Init /\ [][UploadNext]_vars

\* ---- uploads with every callback URL, one scheduler process, the reset ----
\* the PATCH is the one the dashboard sends: {status: 'PENDING'}
WebhookNext ==
    \/ \E callbackWebhook \in WebhookFields :
          UploadRequest(MaxUploads, TRUE, "invoice", TRUE, callbackWebhook,
                        "pdf", "application/pdf", FALSE)
    \/ ClaimStep(Scheduler)
    \/ RunStep(Scheduler)
    \/ WebhookSettle(Scheduler)
    \/ \E j \in 1..MaxUploads : Patch(j, "PENDING", Null)

WebhookSpec == Init /\ [][WebhookNext]_vars

\* ---- GET /api/status/{id} ----

\* ids a client can send: the lengths of the id's dash-separated groups,
\* whether every character of them is a hex digit (either case), and the row
\* the id names (0: no row)
StatusIds ==
    {[groups |-> g, hex |-> h, row |-> 0] :
        g \in {<<8, 4, 4, 4, 12>>, <<8, 4, 4, 4, 11>>, <<32>>},
        h \in BOOLEAN}
    \cup {[groups |-> <<8, 4, 4, 4, 12>>, hex |-> TRUE, row |-> 1]}

\* /^[0-9a-f]{8}-[0-9a-f]{4}-[0-9a-f]{4}-[0-9a-f]{4}-[0-9a-f]{12}$/i
uuidRegex(id) == id.groups = <<8, 4, 4, 4, 12>> /\ id.hex

\* what a row can hold after uploads, worker runs and admin PATCHes: a
\* PENDING row has no errorMessage and no processedAt (the reset clears
\* them); errorMessage is only ever written together with processedAt, and
\* processedAt only together with ocrResult or errorMessage
RowShapes ==
    {r \in [status : Statuses, ocrResult : {Null, ResultJson},
            errorMessage : {Null, TimeoutMsg}, processedAt : {Null, Now},
            createdAt : {1}, callbackWebhook : {Null},
            mimeType : {"application/pdf"}] :
        /\ r.status = "PENDING"
              => (r.errorMessage = Null /\ r.processedAt = Null)
        /\ r.errorMessage # Null => r.processedAt = Now
        /\ r.processedAt = Now
              => (r.ocrResult # Null \/ r.errorMessage # Null)}

\* the keys of the 200 body: the base keys, and by status the result keys
\* with the ocrResult key present in place of errorMessage for a FAILED row
ResponseKeysSwapped(status) ==
    {"id", "status", "documentType", "email", "createdAt", "updatedAt"}
        \cup (IF status = "COMPLETED" THEN {"ocrResult", "processedAt"} ELSE {})
        \cup (IF status = "FAILED" THEN {"ocrResult", "processedAt"} ELSE {})
\* the keys of the 200 body: the base keys, and by status the result keys
ResponseKeys(status) ==
    {"id", "status", "documentType", "email", "createdAt", "updatedAt"}
        \cup (IF status = "COMPLETED" THEN {"ocrResult", "processedAt"} ELSE {})
        \cup (IF status = "FAILED" THEN {"errorMessage", "processedAt"}
                                   ELSE {})

StatusAnswer(code, id, status, fields) ==
    [code |-> code, wellFormed |-> uuidRegex(id), row |-> id.row,
     status |-> status, fields |-> fields]

\* the handler: 400 for a malformed id, 404 for no row, 500 when the read
\* throws, else 200 with the keys the status allows
GetStatus(id, readThrows) ==
    /\ statusAns' =
          IF ~uuidRegex(id) THEN StatusAnswer(400, id, Null, {})
          ELSE IF readThrows THEN StatusAnswer(500, id, Null, {})
          ELSE IF id.row = 0 \/ ~Exists(id.row)
               THEN StatusAnswer(404, id, Null, {})
          ELSE StatusAnswer(200, id, jobs[id.row].status,
                            ResponseKeys(jobs[id.row].status))
    /\ UNCHANGED <<jobs, nextId, workerVars, adminOps, delReq, delForce,
                   sig, sigJob, resp, view, probe, pdf, tmp, align>>

\* one row of any shape, or none
StatusInit ==
    /\ \E r \in RowShapes \cup {NoRow} :
          jobs = [j \in JobIds |-> IF j = 1 THEN r ELSE NoRow]
    /\ nextId = 2
    /\ IdleInit
    /\ view = NoView
    /\ probe = NoProbe
    /\ pdf = NoPdf
    /\ align = NoAlign

StatusNext == \E id \in StatusIds, readThrows \in BOOLEAN :
                 GetStatus(id, readThrows)

StatusSpec == StatusInit /\ [][StatusNext]_vars

\* ---- properties ----

\* process w's claim transaction commits in this step
Claims(w) == pc[w] = "update" /\ pc'[w] = "validate"

\* process w's finalize (COMPLETED or FAILED) writes its row in this step
Finalizes(w) ==
    /\ pc[w] \in {"completing", "failing"}
    /\ pc'[w] # pc[w]
    /\ jobs'[cur[w]] # jobs[cur[w]]

\* C1: of the processes racing for one PENDING row one obtains it and no
\* other does: while only uploads and workers have touched the table, a claim
\* hands out a row only from the PENDING state
AtomicClaim ==
    [][\A w \in Workers :
          (Claims(w) /\ adminOps = 0) => jobs[cur[w]].status = "PENDING"]_vars

LegalTransitions ==
    {<<"PENDING", "PROCESSING">>, <<"PROCESSING", "COMPLETED">>,
     <<"PROCESSING", "FAILED">>} \cup {<<s, "PENDING">> : s \in Statuses}

\* C2: every change of a row's status is PENDING->PROCESSING,
\* PROCESSING->COMPLETED, PROCESSING->FAILED or a reset to PENDING
OnlyLegalTransitions ==
    [][\A j \in JobIds :
          (Exists(j) /\ jobs'[j].status # "ABSENT"
                     /\ jobs'[j].status # jobs[j].status)
              => <<jobs[j].status, jobs'[j].status>> \in LegalTransitions]_vars

\* C3: a COMPLETED row has a result, no error message and a processedAt
CompletedHasResult ==
    \A j \in JobIds :
        jobs[j].status = "COMPLETED"
            => /\ jobs[j].ocrResult # Null
               /\ jobs[j].errorMessage = Null
               /\ jobs[j].processedAt # Null

\* C4: a FAILED row has a non-empty error message and a processedAt
FailedHasMessage ==
    \A j \in JobIds :
        jobs[j].status = "FAILED"
            => /\ jobs[j].errorMessage \notin {Null, ""}
               /\ jobs[j].processedAt # Null

\* C5: every accepted job eventually reaches COMPLETED or FAILED
EveryJobTerminates ==
    \A j \in JobIds :
        Exists(j) ~> (jobs[j].status \in {"COMPLETED", "FAILED"})

\* process w is working on its row: claimed, finalize not yet written
Processing(w) == pc[w] \in {"validate", "ocr", "completing", "failing"}

\* C6: no two processes work on one row at a time, and a finalize is written
\* only by the process whose claim of the row is the most recent one
SingleOwner ==
    /\ [](\A w, v \in Workers :
            (w # v /\ Processing(w) /\ Processing(v)) => cur[w] # cur[v])
    /\ [][\A w \in Workers : Finalizes(w) => ~superseded[w]]_vars

\* C7: the tasks one scheduler process has in flight (tracked in activeJobs
\* or running) never exceed MAX_CONCURRENT_JOBS
InFlightBounded ==
    \A w \in Workers :
        activeJobs[w] + (IF Holds(w) THEN 1 ELSE 0) <= MAX_CONCURRENT_JOBS

\* C7 witness: the scheduler is at capacity while a PENDING job waits
AtCapacityWithPending ==
    /\ activeJobs[Scheduler] = MAX_CONCURRENT_JOBS
    /\ pc[Scheduler] = "sleep"
    /\ OldestPending # {}

\* C8: a PENDING row is never claimed while a PENDING row with a strictly
\* earlier createdAt exists
FifoClaim ==
    [][\A w \in Workers :
          (Claims(w) /\ jobs[cur[w]].status = "PENDING")
              => \A k \in JobIds :
                    (Exists(k) /\ jobs[k].status = "PENDING")
                        => jobs[cur[w]].createdAt <= jobs[k].createdAt]_vars

\* C9: whatever the webhook POST ends with, the delivery leaves the job row as
\* it was, processNextJob returns to the loop without entering the failure
\* handler, and the one POST of the run is not repeated
WebhookLeavesJob ==
    [][\A w \in Workers :
          (pc[w] = "webhook" /\ pc'[w] # "webhook")
              => /\ jobs' = jobs
                 /\ pc'[w] = "loop"
                 /\ posts[w] = 1 /\ posts'[w] = 1]_vars

\* C9 witness: a delivery has failed and its job is COMPLETED with its result
WebhookFailedJobCompleted ==
    \E w \in Workers :
        /\ pc[w] = "loop"
        /\ hookLog[w] = "failed"
        /\ posts[w] = 1
        /\ jobs[cur[w]].status = "COMPLETED"
        /\ jobs[cur[w]].ocrResult = ResultJson
        /\ jobs[cur[w]].processedAt # Null

\* C10: a worker is never still waiting for the webhook's answer once the
\* delivery budget has run out
WebhookWaitBounded ==
    \A w \in Workers : ~(pc[w] = "webhook" /\ hookOverdue[w])

\* C11: once the PROCESSING_TIMEOUT timer has rejected, the run is in the
\* failure handler; the handler's write on the claimed row stores FAILED with
\* the message "Processing timeout exceeded" and a processedAt and leaves
\* ocrResult as it was; and the handler does run to its end
TimeoutFinalizesFailed ==
    /\ [](\A w \in Workers : err[w] = TimeoutMsg => pc[w] = "failing")
    /\ [][\A w \in Workers :
            (pc[w] = "failing" /\ err[w] = TimeoutMsg /\ pc'[w] # "failing")
                => /\ jobs'[cur[w]].status = "FAILED"
                   /\ jobs'[cur[w]].errorMessage = TimeoutMsg
                   /\ jobs'[cur[w]].processedAt # Null
                   /\ jobs'[cur[w]].ocrResult = jobs[cur[w]].ocrResult
                   /\ jobs'[cur[w]].ocrResult = Null]_vars
    /\ \A w \in Workers :
          (pc[w] = "failing" /\ err[w] = TimeoutMsg) ~> (pc[w] = "loop")

\* C11 witness: a run that timed out is over and its job is FAILED with the
\* timeout message and no result
TimedOutJobFailed ==
    \E w \in Workers :
        /\ pc[w] = "loop"
        /\ cur[w] # 0
        /\ jobs[cur[w]].status = "FAILED"
        /\ jobs[cur[w]].errorMessage = TimeoutMsg
        /\ jobs[cur[w]].processedAt # Null
        /\ jobs[cur[w]].ocrResult = Null

\* C12: the OCR call is entered only from a re-validation that passed; a
\* failed re-validation puts the run in the failure handler, which never
\* reaches the OCR call and whose write stores FAILED with the validation
\* message
ValidationGuardsOcr ==
    /\ [](\A w \in Workers :
            err[w] = ValidationFailedMsg => pc[w] = "failing")
    /\ [][\A w \in Workers :
            /\ (pc'[w] = "ocr" /\ pc[w] # "ocr") => pc[w] = "validate"
            /\ (pc'[w] = "validate" /\ pc[w] # "validate") => Claims(w)
            /\ (pc[w] = "failing" /\ err[w] = ValidationFailedMsg
                                  /\ pc'[w] # "failing")
                   => /\ pc'[w] = "loop"
                      /\ jobs'[cur[w]].status = "FAILED"
                      /\ jobs'[cur[w]].errorMessage = ValidationFailedMsg
                      /\ jobs'[cur[w]].ocrResult = Null]_vars

\* C12 witness: a run whose re-validation failed is over and its job is
\* FAILED with the validation message
InvalidFileJobFailed ==
    \E w \in Workers :
        /\ pc[w] = "loop"
        /\ cur[w] # 0
        /\ jobs[cur[w]].status = "FAILED"
        /\ jobs[cur[w]].errorMessage = ValidationFailedMsg
        /\ jobs[cur[w]].ocrResult = Null

\* C13: when a store write of a run throws with the row in place, the run is
\* abandoned to the back-off sleep and its row stays PROCESSING
StoreFailureLeavesProcessing ==
    [][\A w \in Workers :
          (pc[w] = "failing" /\ err[w] = StoreErrorMsg /\ pc'[w] # "failing")
              => /\ pc'[w] = "sleep"
                 /\ jobs'[cur[w]].status = "PROCESSING"]_vars

\* C14: a finalize that finds its row deleted changes no row and adds nothing
\* to activeJobs, the run ends in the back-off sleep of a live loop, and from
\* there the process claims again if a PENDING row is waiting
DeletedRowFinalizeIsNoOp ==
    /\ [](\A w \in Workers : pc[w] # "crashed")
    /\ [][\A w \in Workers :
            (pc[w] \in {"completing", "failing"} /\ ~Exists(cur[w])
                                                 /\ pc'[w] # pc[w])
                => /\ jobs' = jobs
                   /\ activeJobs'[w] = activeJobs[w]
                   /\ pc'[w] = IF pc[w] = "completing" THEN "failing"
                                                      ELSE "sleep"]_vars
    /\ \A w \in Workers :
          (pc[w] = "sleep" /\ cur[w] # 0 /\ ~Exists(cur[w]))
              ~> (pc[w] = "validate" \/ OldestPending = {})

\* C14 witness: the COMPLETED write has found its row deleted, the failure
\* handler is about to run, and a PENDING row is waiting
FinalizeFoundNoRow ==
    /\ pc[Scheduler] = "failing"
    /\ err[Scheduler] = RecordNotFoundMsg
    /\ ~Exists(cur[Scheduler])
    /\ OldestPending # {}

\* C15: a DELETE without force=true never removes a row that is PROCESSING
UnforcedDeleteSparesProcessing ==
    [][(delReq # 0 /\ ~delForce /\ jobs[delReq].status = "PROCESSING")
          => jobs'[delReq].status # "ABSENT"]_vars

\* C16: a row reset to PENDING has no errorMessage and no processedAt, and a
\* row reset from COMPLETED (PENDING with its old result) is claimed again
ResetIsProcessedAgain ==
    /\ [][\A j \in JobIds :
            (adminOps' # adminOps /\ jobs'[j] # jobs[j]
                                  /\ jobs'[j].status = "PENDING")
                => /\ jobs'[j].errorMessage = Null
                   /\ jobs'[j].processedAt = Null]_vars
    /\ \A j \in JobIds :
          (jobs[j].status = "PENDING" /\ jobs[j].ocrResult # Null)
              ~> (jobs[j].status = "PROCESSING")

\* C18: a row the process held PROCESSING when the signal arrived is
\* COMPLETED or FAILED once the process has exited
ShutdownFinalizesInFlight ==
    \A w \in Workers :
        (sig[w] = "exited" /\ sigJob[w] # 0)
            => jobs[sigJob[w]].status \in {"COMPLETED", "FAILED"}

\* C17: every report that has answered calls the row stuck just when it is
\* PROCESSING and now - updatedAt exceeds 10 minutes
StuckReportsAgree ==
    LET stuck == Answer(view.status = "PROCESSING"
                           /\ view.now - view.updatedAt > TEN_MINUTES)
    IN  /\ view.stats \in {"unasked", stuck}
        /\ view.list \in {"unasked", stuck}
        /\ view.detail \in {"unasked", stuck}

LocalOrPrivate(url) ==
    LET h == HostAsWritten(url)
        o == Octets(h.parts)
    IN  CASE h.kind = "domain" -> ToLowerCase(h.labels[1]) = "localhost"
                                    /\ Len(h.labels) = 1
          [] h.kind = "v6" -> h.parts = <<0, 0, 0, 0, 0, 0, 0, 1>>
          [] h.kind = "v4" ->
                \/ o = <<127, 0, 0, 1>>
                \/ o = <<0, 0, 0, 0>>
                \/ o[1] = 10
                \/ o[1] = 172 /\ o[2] \div 16 = 1
                \/ o[1] = 192 /\ o[2] = 168
                \/ o[1] = 169 /\ o[2] = 254
          [] OTHER -> FALSE

\* C20: no row ever has a callbackWebhook whose host is local or private, a
\* row's callbackWebhook never changes while the row exists, and a worker
\* never holds such a URL to POST to
NoPrivateWebhook ==
    /\ [](\A j \in JobIds :
            (Exists(j) /\ jobs[j].callbackWebhook # Null)
                => /\ jobs[j].callbackWebhook \in WebhookUrls
                   /\ ~LocalOrPrivate(jobs[j].callbackWebhook))
    /\ [](\A w \in Workers :
            snapWebhook[w] # Null => ~LocalOrPrivate(snapWebhook[w]))
    /\ [][\A j \in JobIds :
            (Exists(j) /\ jobs'[j].status # "ABSENT")
                => jobs'[j].callbackWebhook = jobs[j].callbackWebhook]_vars
    /\ [][(resp' # resp /\ resp'.code = 201) => nextId' # nextId]_vars

\* C20 witness: an upload naming a private host was answered 400 while a
\* worker waits for the answer of a POST to a host just outside 172.16.0.0/12
PostsOnlyToPublicHost ==
    /\ resp.code = 400
    /\ \E w \in Workers :
          /\ pc[w] = "webhook"
          /\ snapWebhook[w] \in {"http://172.32.0.1/hook",
                                 "http://172.15.0.1/hook"}
\* C21: a status request answers 400 exactly for an id that is not five hex
\* groups of 8-4-4-4-12, 404 for a well-formed id that names no row, and
\* otherwise, unless the read fails, 200 with the row's status, the key
\* ocrResult present exactly for COMPLETED and the key errorMessage present
\* exactly for FAILED, whatever the row holds
StatusAnswersByRow ==
    [][LET a == statusAns'
           NoSuchRow == a.row = 0 \/ ~Exists(a.row)
       IN  /\ a.code \in {200, 400, 404, 500}
           /\ a.code = 400 <=> ~a.wellFormed
           /\ (a.wellFormed /\ a.code # 500)
                 => /\ a.code = 404 <=> NoSuchRow
                    /\ a.code = 200 <=> ~NoSuchRow
           /\ a.code = 200
                 => /\ a.status = jobs[a.row].status
                    /\ "ocrResult" \in a.fields <=> a.status = "COMPLETED"
                    /\ "errorMessage" \in a.fields <=> a.status = "FAILED"
           /\ a.code # 200 => a.fields = {}]_vars

\* a 200 answer for a PROCESSING row that holds a result and a message
ProcessingRowAnswered ==
    /\ statusAns.code = 200
    /\ statusAns.status = "PROCESSING"
    /\ jobs[1].ocrResult # Null
    /\ jobs[1].errorMessage # Null

\* the five checks of validateFile in the order the specification gives them,
\* each by what makes it fail
SizeFails(b) == b.length > 52428800
DetectionFails(b) == b.mime = Null
AllowListFails(b) ==
    b.mime \notin {"image/png", "image/jpeg", "image/tiff", "image/bmp",
                   "image/webp", "application/pdf"}
ConsistencyFails(b, claimed) ==
    ~ \/ claimed = b.mime
      \/ claimed = "image/jpg" /\ b.mime = "image/jpeg"
TypeSpecificFails(b) ==
    \/ ~b.decodes
    \/ /\ b.mime # "application/pdf"
       /\ ~ /\ 1 <= b.width /\ b.width <= 50000
            /\ 1 <= b.height /\ b.height <= 50000
            /\ b.height <= 178956970 \div b.width
    \/ /\ b.mime = "application/pdf"
       /\ ~(1 <= b.pageCount /\ b.pageCount <= 500)

\* the check an error message belongs to
CheckOf(error) ==
    CASE error = FileSizeError -> 1
      [] error = UndetectedError -> 2
      [] error = UnsupportedError -> 3
      [] error = MismatchError -> 4
      [] error = Null -> 0
      [] OTHER -> 5

LimitsAreInclusive ==
    (/\ probe.done
     /\ ~DetectionFails(probe.buffer)
     /\ ~AllowListFails(probe.buffer)
     /\ ~ConsistencyFails(probe.buffer, probe.claimed)
     /\ probe.buffer.decodes) =>
        LET b == probe.buffer
        IN  probe.result.isValid <=>
              /\ b.length <= 52428800
              /\ b.mime # "application/pdf" =>
                    /\ b.width \in 1..50000
                    /\ b.height \in 1..50000
                    /\ b.height <= 178956970 \div b.width
              /\ b.mime = "application/pdf" => b.pageCount \in 1..500

\* an image of exactly the largest size and pixel count is accepted
LargestImageAccepted ==
    /\ probe.done
    /\ probe.buffer.length = 52428800
    /\ probe.buffer.width = 3683
    /\ probe.buffer.height = 48590
    /\ probe.result.isValid

\* C30: a line whose margins differ by less than 5% of the page width and
\* are both below 10% of it is labelled justified
JustifiedLineLabelled ==
    (/\ align.done
     /\ 20 * Abs(align.x0 - (align.pageWidth - align.x1)) < align.pageWidth
     /\ 10 * align.x0 < align.pageWidth
     /\ 10 * (align.pageWidth - align.x1) < align.pageWidth)
        => align.label = "justified"

\* C26: the clean-up pass of a loop iteration removes every finished task, so
\* after it the process is never backing off at capacity while it has no job
\* between claim and return
ReapFreesCapacity ==
    \A w \in Workers :
        (pc[w] = "sleep" /\ ~Holds(w))
            => activeJobs[w] < MAX_CONCURRENT_JOBS

\* C27: a process that is working on a job, has capacity left and sees a
\* PENDING row can go on to claim that row before its job is finalized
ClaimsWhileProcessing ==
    \A w \in Workers :
        (/\ Processing(w)
         /\ OldestPending # {}
         /\ activeJobs[w] + 1 < MAX_CONCURRENT_JOBS)
            => ENABLED FindPending(w)

\* C28: a webhook POST is issued only in the step that has written COMPLETED
\* and ocrResult to the job's row, only when the claimed row carries
\* callbackWebhook, and only as the first POST of the run; a run that is in
\* or enters the failure handler has issued none
PostOnlyAfterCompleted ==
    [][\A w \in Workers :
          /\ posts'[w] > posts[w]
                => /\ posts[w] = 0
                   /\ posts'[w] = 1
                   /\ snapWebhook[w] # Null
                   /\ jobs'[cur[w]].status = "COMPLETED"
                   /\ jobs'[cur[w]].ocrResult = ResultJson
          /\ (pc[w] = "failing" \/ pc'[w] = "failing")
                => (posts[w] = 0 /\ posts'[w] = 0)]_vars

\* the POST of a run is under way and the row is COMPLETED with its result
PostUnderWayRowCompleted ==
    /\ pc[Scheduler] = "webhook"
    /\ posts[Scheduler] = 1
    /\ hookLog[Scheduler] = Null
    /\ jobs[cur[Scheduler]].status = "COMPLETED"
    /\ jobs[cur[Scheduler]].ocrResult = ResultJson

\* C29: a PENDING or PROCESSING row has no ocrResult, no errorMessage and
\* no processedAt
NonTerminalHasNoResultFields ==
    \A j \in JobIds :
        (Exists(j) /\ jobs[j].status \in {"PENDING", "PROCESSING"})
            => /\ jobs[j].ocrResult = Null
               /\ jobs[j].errorMessage = Null
               /\ jobs[j].processedAt = Null

\* the pages 1..n outside a set, in ascending order
RECURSIVE Ascending(_, _)
Ascending(n, bad) ==
    IF n = 0 THEN <<>>
    ELSE IF n \in bad THEN Ascending(n - 1, bad)
    ELSE Append(Ascending(n - 1, bad), n)

\* C24: at most PDF_PAGE_CONCURRENCY (4) pages are in processing at a time;
\* when processPDF returns, its page results are those of the pages that did
\* not fail, in ascending page order; it throws exactly when every page
\* failed
PagesBoundedOrderedSkipped ==
    /\ pdf.phase # "idle" =>
          /\ Cardinality(pdf.running) <= 4
          /\ pdf.phase = "returned"
                => pdf.pageResults = Ascending(pdf.numpages, pdf.bad)
          /\ pdf.phase = "threw" => pdf.bad = 1..pdf.numpages
          /\ pdf.phase = "returned" => pdf.bad # 1..pdf.numpages

\* a PDF of two batches returned although a page failed and the pages of
\* its last batch settled in descending order
ReturnedWithFailedPageOutOfOrder ==
    /\ pdf.phase = "returned"
    /\ pdf.numpages > 4
    /\ pdf.bad # {}
    /\ Len(pdf.settled) >= 2
    /\ pdf.settled[1] > pdf.settled[2]
    /\ pdf.settled[1] \notin pdf.bad
    /\ pdf.settled[2] \notin pdf.bad

\* a callPaddleOCR call that has named its temporary file and not yet
\* removed it
InUse(c) == tmp.calls[c].pc \in {"named", "written", "ran", "threw"}

\* C25: two callPaddleOCR calls under way at once never have the same
\* temporary path
TempPathOwnedByOne ==
    \A c, d \in Invocations :
        (c # d /\ InUse(c) /\ InUse(d))
            => tmp.calls[c].path # tmp.calls[d].path

====
